---- MODULE Spec2Model ----
(***************************************************************************)
(* Model of src/app.py: the IndexedDB storage script embedded in the page  *)
(* (indexeddb_js, lines 12-134).  One behaviour is one load of that        *)
(* script: the open request of line 18, its three callbacks, the window's  *)
(* "message" handler, and the IndexedDB requests and transactions that the *)
(* handler starts.  The IndexedDB substrate is modelled by the steps the   *)
(* event loop runs as separate tasks: the upgrade transaction finishing,   *)
(* a request succeeding or failing, a transaction committing or aborting.  *)
(***************************************************************************)
EXTENDS Integers, Sequences, FiniteSets, TLC

(* ----------------------------- bounds ---------------------------------- *)
\* number of message events the handler receives in one behaviour
MaxRequests == 2
\* last value of the millisecond clock read by Date.now()
MaxNow == 1

(* --------------------------- program constants ------------------------- *)
\* the version an earlier load of the page has created the database with
InstalledVersion == 1
\* the open request with the version raised: open("CSV_Database", 2)
RequestedVersion_Raised == InstalledVersion + 1
\* indexedDB.open("CSV_Database", 1): the requested schema version
RequestedVersion == 1
\* the object store's name
STORE == "csv_data"

\* payloads and file names a STORE_CSV message can carry
Data == {"d1"}
Filename == {"a.csv", "b.csv"}
\* outcomes of Math.random().toString(36).substr(2, 5)
Random == {0, 1}

NoId == <<>>
NONE == "none"

VARIABLES
    dbVersion,   \* persisted version of CSV_Database (0: it does not exist)
    storeNames,  \* persisted objectStoreNames
    records,     \* committed records of the object store
    snapshot,    \* persisted state saved when the upgrade transaction starts
    openState,   \* lifecycle of the open request of line 18
    db,          \* the global `let db`
    now,         \* the last reading of the clock (Date.now(), new Date())
    requests,    \* log of the message events handled, in order
    txs,         \* transactions created by the handler, in creation order
    posted,      \* notifications posted to window.parent, in order
    hostPosted,  \* messages posted by the snippets that main() has rendered
    lastRun      \* the inputs of the latest run of main()

vars == <<dbVersion, storeNames, records, snapshot, openState, db, now,
          requests, txs, posted, hostPosted, lastRun>>

\* the state of the Streamlit script; the page script of lines 12-134 has
\* no access to it
hostVars == <<hostPosted, lastRun>>

persisted == <<dbVersion, storeNames, records>>

(* ------------------------------ messages ------------------------------- *)
\* the message events the handler can receive
StoreMsg(d, f) == [type |-> "STORE_CSV", data |-> d, filename |-> f]
GetAllMsg == [type |-> "GET_ALL_DATA", data |-> NONE, filename |-> NONE]
OtherMsg == [type |-> "OTHER", data |-> NONE, filename |-> NONE]
Messages == {StoreMsg(d, f) : d \in Data, f \in Filename} \cup {GetAllMsg, OtherMsg}

\* Every st.components.v1.html call renders its markup in a frame of its
\* own: the frame of the storage script (line 137), the frame of a snippet
\* that posts a request (lines 189, 225, 243), the frame of
\* message_handler_js (line 268).  All are children of the application page.
EngineFrame == "engine_frame"
SnippetFrame == "snippet_frame"
ListenerFrame == "listener_frame"
AppPage == "app_page"

\* a notification as the receiver sees it
Notification(t, i, f, e, d) ==
    [type |-> t, id |-> i, filename |-> f, error |-> e, data |-> d]

\* window.parent.postMessage(msg, "*"), issued while serving request r
\* (r = 0: posted by a callback of the open request)
Post(msg, r) == posted' = Append(posted, [msg |-> msg, req |-> r, window |-> AppPage])

(* ------------------------- persisted state at load --------------------- *)
\* a record left by an earlier load of the page.  Its id can be drawn again:
\* Date.now() is wall-clock time, which can be set back between two loads,
\* and the random suffix is short
OldRecord == [id |-> <<1, 0>>, filename |-> "a.csv", data |-> "d1", timestamp |-> 1]

\* what an earlier load of this program can have left behind: nothing, or
\* version 1 with the store and the records committed so far
PersistedAtLoad ==
    { [version |-> 0, stores |-> {}, records |-> {}],
      [version |-> InstalledVersion, stores |-> {STORE}, records |-> {}],
      [version |-> InstalledVersion, stores |-> {STORE}, records |-> {OldRecord}] }

Init ==
    /\ \E p \in PersistedAtLoad :
          /\ dbVersion = p.version
          /\ storeNames = p.stores
          /\ records = p.records
          /\ snapshot = p
    /\ openState = "Opening"
    /\ db = "undefined"
    /\ now = 1
    /\ requests = <<>>
    /\ txs = <<>>
    /\ posted = <<>>
    /\ hostPosted = {}
    /\ lastRun = [upload |-> NONE, clicked |-> "norun", download |-> NONE,
                  parsed |-> NONE]

(* ------------------------------ the clock ------------------------------ *)
\* what Date.now() can return: the clock does not run backwards
ClockReadings == now..MaxNow

(* --------------------------- the open request -------------------------- *)
(* openState follows the open request of line 18:                          *)
(*   "Opening"         open called, no callback has run                    *)
(*   "Migrating"       onupgradeneeded has run, the upgrade transaction is *)
(*                     live                                                *)
(*   "Upgraded"        the upgrade transaction has completed; the task     *)
(*                     that fires the request's success event has not run  *)
(*   "UpgradeAborted"  the upgrade transaction has aborted; the task that  *)
(*                     fires the request's error event has not run         *)
(*   "Ready"           request.onsuccess has run                           *)
(*   "Failed"          request.onerror has run                             *)
(* The completion of the upgrade transaction and the success (error) event *)
(* of the open request are separate tasks of the event loop, so a message  *)
(* event can be handled between them.                                      *)
\* an open that runs the upgrade whatever the persisted version is
UpgradeNeeded_Always == TRUE

\* the open runs an upgrade when the persisted version is older
UpgradeNeeded == dbVersion < RequestedVersion

\* request.onupgradeneeded, run inside the live upgrade transaction
OnUpgradeNeeded ==
    /\ openState = "Opening"
    /\ UpgradeNeeded
    /\ snapshot' = [version |-> dbVersion, stores |-> storeNames, records |-> records]
    /\ dbVersion' = RequestedVersion
    /\ db' = "connection"
    /\ storeNames' = IF STORE \notin storeNames THEN storeNames \cup {STORE}
                                                ELSE storeNames
    /\ openState' = "Migrating"
    /\ UNCHANGED <<records, now, requests, txs, posted>>
    /\ UNCHANGED hostVars

\* the upgrade transaction commits; the open request's success event is a
\* later task
UpgradeComplete ==
    /\ openState = "Migrating"
    /\ openState' = "Upgraded"
    /\ UNCHANGED <<dbVersion, storeNames, records, snapshot, db, now,
                   requests, txs, posted>>
    /\ UNCHANGED hostVars

\* the upgrade transaction aborts: its changes are undone and the
\* connection is closed; the open request's error event is a later task
UpgradeAbort ==
    /\ openState = "Migrating"
    /\ dbVersion' = snapshot.version
    /\ storeNames' = snapshot.stores
    /\ records' = snapshot.records
    /\ openState' = "UpgradeAborted"
    /\ UNCHANGED <<snapshot, db, now, requests, txs, posted>>
    /\ UNCHANGED hostVars

\* request.onsuccess
OnSuccess ==
    /\ \/ openState = "Opening" /\ dbVersion = RequestedVersion
       \/ openState = "Upgraded"
    /\ db' = "connection"
    /\ Post(Notification("DB_READY", NoId, NONE, NONE, {}), 0)
    /\ openState' = "Ready"
    /\ UNCHANGED <<dbVersion, storeNames, records, snapshot, now, requests, txs>>
    /\ UNCHANGED hostVars

\* request.onerror: the substrate refused the open, or the upgrade aborted
OnError ==
    /\ openState \in {"Opening", "UpgradeAborted"}
    /\ Post(Notification("DB_ERROR", NoId, NONE, "OpenError", {}), 0)
    /\ openState' = "Failed"
    /\ UNCHANGED <<dbVersion, storeNames, records, snapshot, db, now, requests, txs>>
    /\ UNCHANGED hostVars

(* ------------------------ db.transaction(...) -------------------------- *)
\* db.transaction that throws only while the upgrade transaction is live
TransactionThrows_LiveUpgradeOnly == openState = "Migrating"

\* db.transaction("csv_data", mode) throws while the upgrade transaction is
\* live, on a closed connection, and when the store does not exist
TransactionThrows ==
    \/ openState = "Migrating"
    \/ openState \in {"UpgradeAborted", "Failed"}
    \/ STORE \notin storeNames

TransactionError ==
    IF openState = "Migrating" \/ openState \in {"UpgradeAborted", "Failed"}
    THEN "InvalidStateError" ELSE "NotFoundError"

NewTx(r, mode, writes) ==
    [req |-> r, mode |-> mode, state |-> "pending", writes |-> writes,
     prior |-> {}, error |-> NONE]

(* --------------------------- message handler --------------------------- *)
(* The handler runs for every message event dispatched at the script's     *)
(* window, whoever posted it; the event's data is its input.  The part of  *)
(* the handler after `await` runs when the promise settles: at once when   *)
(* the promise is rejected synchronously, otherwise with the request's     *)
(* success or error event (AddSuccess, AddError, GetAllSuccess).           *)
\* storeCSVData(data, filename) up to store.add(record), and the catch
\* branch of the handler when the promise is rejected at once
StoreCSVData(r, data, filename) ==
    IF db = "undefined"
    THEN /\ Post(Notification("STORAGE_ERROR", NoId, NONE, "Database not initialized", {}), r)
         /\ UNCHANGED <<txs, now>>
    ELSE IF TransactionThrows
    THEN /\ Post(Notification("STORAGE_ERROR", NoId, NONE, TransactionError, {}), r)
         /\ UNCHANGED <<txs, now>>
    ELSE /\ \E t \in ClockReadings, rnd \in Random :
              /\ now' = t
              /\ txs' = Append(txs, NewTx(r, "readwrite",
                          {[id |-> <<t, rnd>>, filename |-> filename,
                            data |-> data, timestamp |-> t]}))
         /\ UNCHANGED posted

\* getAllCSVData() up to store.getAll(), and the catch branch
GetAllCSVData(r) ==
    IF db = "undefined"
    THEN /\ Post(Notification("DATA_ERROR", NoId, NONE, "Database not initialized", {}), r)
         /\ UNCHANGED txs
    ELSE IF TransactionThrows
    THEN /\ Post(Notification("DATA_ERROR", NoId, NONE, TransactionError, {}), r)
         /\ UNCHANGED txs
    ELSE /\ txs' = Append(txs, NewTx(r, "readonly", {}))
         /\ UNCHANGED posted

\* window.addEventListener("message", ...)
MessageHandler(msg) ==
    /\ Len(requests) < MaxRequests
    /\ requests' = Append(requests, [msg |-> msg, at |-> openState])
    /\ IF msg.type = "STORE_CSV"
       THEN StoreCSVData(Len(requests) + 1, msg.data, msg.filename)
       ELSE IF msg.type = "GET_ALL_DATA"
       THEN GetAllCSVData(Len(requests) + 1) /\ UNCHANGED now
       ELSE UNCHANGED <<txs, posted, now>>
    /\ UNCHANGED <<dbVersion, storeNames, records, snapshot, openState, db>>
    /\ UNCHANGED hostVars

(* ----------------------- requests and transactions --------------------- *)
Finished(t) == t.state \in {"committed", "aborted"}

\* a substrate that starts a transaction whatever runs before it
CanRun_Unordered(i) == TRUE

\* transactions on the store run in creation order; only read-only ones
\* overlap
CanRun(i) ==
    \A j \in 1..(i - 1) :
        Finished(txs[j]) \/ (txs[j].mode = "readonly" /\ txs[i].mode = "readonly")

TheWrite(t) == CHOOSE w \in t.writes : TRUE

\* store.put(record) in place of store.add(record): no key is ever refused
KeyExists_Put(id) == FALSE

\* store.add(record) fails when the key path value is already in the store
KeyExists(id) == \E r \in records : r.id = id

\* the add request succeeds: request.onsuccess resolves the promise and the
\* handler posts STORAGE_SUCCESS
AddSuccess(i) ==
    /\ txs[i].mode = "readwrite" /\ txs[i].state = "pending" /\ CanRun(i)
    /\ ~KeyExists(TheWrite(txs[i]).id)
    /\ txs' = [txs EXCEPT ![i].state = "done",
                          ![i].prior = {r \in records : r.id = TheWrite(txs[i]).id}]
    /\ Post(Notification("STORAGE_SUCCESS", TheWrite(txs[i]).id,
                         TheWrite(txs[i]).filename, NONE, {}), txs[i].req)
    /\ UNCHANGED <<dbVersion, storeNames, records, snapshot, openState, db, now, requests>>
    /\ UNCHANGED hostVars

\* AddError with the rejection lost: the request fails and nothing is posted
AddError_NoReject(i) ==
    /\ txs[i].mode = "readwrite" /\ txs[i].state = "pending" /\ CanRun(i)
    /\ \E r \in records : r.id = TheWrite(txs[i]).id
    /\ txs' = [txs EXCEPT ![i].state = "aborted",
                          ![i].error = "ConstraintError",
                          ![i].prior = {r \in records : r.id = TheWrite(txs[i]).id}]
    /\ UNCHANGED <<dbVersion, storeNames, records, snapshot, openState, db, now,
                   requests, posted>>
    /\ UNCHANGED hostVars

\* AddError that takes the other unfinished transactions down with it
AddError_AbortsAll(i) ==
    /\ txs[i].mode = "readwrite" /\ txs[i].state = "pending" /\ CanRun(i)
    /\ \E r \in records : r.id = TheWrite(txs[i]).id
    /\ txs' = [j \in DOMAIN txs |->
                 IF j = i
                 THEN [txs[j] EXCEPT !.state = "aborted", !.error = "ConstraintError",
                                     !.prior = {r \in records : r.id = TheWrite(txs[i]).id}]
                 ELSE IF Finished(txs[j]) THEN txs[j]
                 ELSE [txs[j] EXCEPT !.state = "aborted", !.error = "AbortError"]]
    /\ Post(Notification("STORAGE_ERROR", NoId, NONE, "ConstraintError", {}), txs[i].req)
    /\ UNCHANGED <<dbVersion, storeNames, records, snapshot, openState, db, now, requests>>
    /\ UNCHANGED hostVars

\* the add request fails with ConstraintError: request.onerror rejects the
\* promise, the handler posts STORAGE_ERROR, the transaction aborts
AddError(i) ==
    /\ txs[i].mode = "readwrite" /\ txs[i].state = "pending" /\ CanRun(i)
    /\ KeyExists(TheWrite(txs[i]).id)
    /\ txs' = [txs EXCEPT ![i].state = "aborted",
                          ![i].error = "ConstraintError",
                          ![i].prior = {r \in records : r.id = TheWrite(txs[i]).id}]
    /\ Post(Notification("STORAGE_ERROR", NoId, NONE, "ConstraintError", {}), txs[i].req)
    /\ UNCHANGED <<dbVersion, storeNames, records, snapshot, openState, db, now, requests>>
    /\ UNCHANGED hostVars

\* a commit that first deletes the records of the same filename
Commit_DeleteThenInsert(i) ==
    /\ txs[i].mode = "readwrite" /\ txs[i].state = "done"
    /\ records' = {r \in records : r.filename # TheWrite(txs[i]).filename}
                      \cup txs[i].writes
    /\ txs' = [txs EXCEPT ![i].state = "committed"]
    /\ UNCHANGED <<dbVersion, storeNames, snapshot, openState, db, now, requests, posted>>
    /\ UNCHANGED hostVars

\* the write transaction commits
Commit(i) ==
    /\ txs[i].mode = "readwrite" /\ txs[i].state = "done"
    /\ records' = records \cup txs[i].writes
    /\ txs' = [txs EXCEPT ![i].state = "committed"]
    /\ UNCHANGED <<dbVersion, storeNames, snapshot, openState, db, now, requests, posted>>
    /\ UNCHANGED hostVars

\* the write transaction aborts while committing (quota, I/O)
CommitAbort(i) ==
    /\ txs[i].mode = "readwrite" /\ txs[i].state = "done"
    /\ txs' = [txs EXCEPT ![i].state = "aborted", ![i].error = "AbortError"]
    /\ UNCHANGED <<dbVersion, storeNames, records, snapshot, openState, db, now,
                   requests, posted>>
    /\ UNCHANGED hostVars

\* a read that reports an empty result as an error
GetAllSuccess_EmptyIsError(i) ==
    /\ txs[i].mode = "readonly" /\ txs[i].state = "pending" /\ CanRun(i)
    /\ txs' = [txs EXCEPT ![i].state = "committed"]
    /\ IF records = {}
       THEN Post(Notification("DATA_ERROR", NoId, NONE, "NotFoundError", {}), txs[i].req)
       ELSE Post(Notification("ALL_DATA", NoId, NONE, NONE, records), txs[i].req)
    /\ UNCHANGED <<dbVersion, storeNames, records, snapshot, openState, db, now, requests>>
    /\ UNCHANGED hostVars

\* a read that empties the store once it has returned its records
GetAllSuccess_Clearing(i) ==
    /\ txs[i].mode = "readonly" /\ txs[i].state = "pending" /\ CanRun(i)
    /\ txs' = [txs EXCEPT ![i].state = "committed"]
    /\ Post(Notification("ALL_DATA", NoId, NONE, NONE, records), txs[i].req)
    /\ records' = {}
    /\ UNCHANGED <<dbVersion, storeNames, snapshot, openState, db, now, requests>>
    /\ UNCHANGED hostVars

\* the getAll request succeeds: the promise resolves with request.result and
\* the handler posts ALL_DATA
GetAllSuccess(i) ==
    /\ txs[i].mode = "readonly" /\ txs[i].state = "pending" /\ CanRun(i)
    /\ txs' = [txs EXCEPT ![i].state = "committed"]
    /\ Post(Notification("ALL_DATA", NoId, NONE, NONE, records), txs[i].req)
    /\ UNCHANGED <<dbVersion, storeNames, records, snapshot, openState, db, now, requests>>
    /\ UNCHANGED hostVars

Substrate ==
    \E i \in DOMAIN txs :
        AddSuccess(i) \/ AddError(i) \/ Commit(i) \/ CommitAbort(i) \/ GetAllSuccess(i)

Next ==
    \/ OnUpgradeNeeded
    \/ UpgradeComplete
    \/ UpgradeAbort
    \/ OnSuccess
    \/ OnError
    \/ \E msg \in Messages : MessageHandler(msg)
    \/ \E i \in DOMAIN txs : AddSuccess(i)
    \/ \E i \in DOMAIN txs : AddError(i)
    \/ \E i \in DOMAIN txs : Commit(i)
    \/ \E i \in DOMAIN txs : CommitAbort(i)
    \/ \E i \in DOMAIN txs : GetAllSuccess(i)

Spec == Init /\ [][Next]_vars

(* ------------------------- the Streamlit script ------------------------ *)
(* One step is one run of main() (lines 148-268) on the widget values of   *)
(* that run: the uploaded file, the button clicked, the GitHub URL, and on *)
(* the outcome of the download and of pd.read_csv.                         *)
\* the names of the files the user can upload
UploadNames == Filename
\* the raw URLs the user can enter, as their "/"-separated segments
Urls == {<<"raw.githubusercontent.com", "a.csv">>, <<"raw.githubusercontent.com", "b.csv">>}
\* requests.get(url) followed by raise_for_status(): the body arrives, the
\* body arrives empty, or the request or the status check raises
DownloadOutcomes == {"ok", "empty", "failed"}
ParseOutcomes == {"ok", "failed"}

\* a download that returns the body whatever the status of the response
DownloadCsvFromGithub_KeepsBody(outcome) ==
    IF outcome = "empty" THEN "" ELSE "csv"

\* download_csv_from_github(url): response.text, or None on any exception
DownloadCsvFromGithub(outcome) ==
    IF outcome = "failed" THEN NONE
    ELSE IF outcome = "empty" THEN "" ELSE "csv"

\* Python truth of `if csv_content:`
Truthy(text) == text # NONE /\ text # ""

\* github_url.split("/")[-1]
LastSegment(url) == url[Len(url)]

\* window.postMessage(msg, "*") in a snippet: the message goes to the
\* window of the frame the snippet runs in
HostPost(msg, path, download, parsed) ==
    [msg |-> msg, window |-> SnippetFrame, path |-> path,
     download |-> download, parsed |-> parsed]

\* the upload section
UploadPosts(name, parsed) ==
    IF name # NONE /\ parsed = "ok"
    THEN {HostPost(StoreMsg("d1", name), "upload", NONE, parsed)}
    ELSE {}

\* the GitHub section, entered when the URL is set and the button clicked
GithubPosts(url, outcome, parsed) ==
    IF Truthy(DownloadCsvFromGithub(outcome)) /\ parsed = "ok"
    THEN {HostPost(StoreMsg("d1", LastSegment(url)), "github", outcome, parsed)}
    ELSE {}

\* the verification section
VerifyPosts == {HostPost(GetAllMsg, "verify", NONE, NONE)}

\* main()
Main(name, uploadParsed, clicked, url, outcome, parsed) ==
    /\ hostPosted' = hostPosted
          \cup UploadPosts(name, uploadParsed)
          \cup (IF clicked = "github" THEN GithubPosts(url, outcome, parsed) ELSE {})
          \cup (IF clicked = "verify" THEN VerifyPosts ELSE {})
    /\ lastRun' = [upload |-> IF name # NONE /\ uploadParsed = "ok" THEN name ELSE NONE,
                   clicked |-> clicked,
                   download |-> IF clicked = "github" THEN outcome ELSE NONE,
                   parsed |-> IF clicked = "github" /\ Truthy(DownloadCsvFromGithub(outcome))
                              THEN parsed ELSE NONE]
    /\ UNCHANGED <<dbVersion, storeNames, records, snapshot, openState, db, now,
                   requests, txs, posted>>

HostNext ==
    \E name \in UploadNames \cup {NONE}, uploadParsed \in ParseOutcomes,
       clicked \in {"none", "github", "verify"}, url \in Urls,
       outcome \in DownloadOutcomes, parsed \in ParseOutcomes :
        Main(name, uploadParsed, clicked, url, outcome, parsed)

\* the runs of the Streamlit script
HostSpec == Init /\ [][HostNext]_vars

\* the event loop runs every queued task: a pending request or a finishing
\* transaction is eventually processed
FairSpec == Spec /\ WF_vars(Substrate)

(* ------------------------- vocabulary of the claims -------------------- *)
IsRequest(r) == requests[r].msg.type \in {"STORE_CSV", "GET_ALL_DATA"}

\* positions in posted of the notifications issued while serving request r
Responses(r) == {i \in DOMAIN posted : posted[i].req = r}

SuccessTypes == {"STORAGE_SUCCESS", "ALL_DATA"}
ErrorTypes == {"STORAGE_ERROR", "DATA_ERROR"}

\* the outcomes a message of type t may be answered with
OutcomesOf(t) ==
    IF t = "STORE_CSV" THEN {"STORAGE_SUCCESS", "STORAGE_ERROR"}
    ELSE IF t = "GET_ALL_DATA" THEN {"ALL_DATA", "DATA_ERROR"}
    ELSE {}

\* the transactions created for request r
TxsOf(r) == {i \in DOMAIN txs : txs[i].req = r}

(* -------------------------------- C1 ----------------------------------- *)
AtMostOneResponse ==
    \A r \in DOMAIN requests :
        /\ Cardinality(Responses(r)) <= 1
        /\ \A i \in Responses(r) : posted[i].msg.type \in OutcomesOf(requests[r].msg.type)

\* C1: every STORE_CSV or GET_ALL_DATA message the handler receives is
\* eventually answered by exactly one notification, a success or an error of
\* its own kind; at no time has a request two notifications, and a message of
\* another type has none.
C1_ExactlyOneResponse ==
    /\ []AtMostOneResponse
    /\ \A r \in 1..MaxRequests :
          [](r \in DOMAIN requests /\ IsRequest(r)
                => <>(Cardinality(Responses(r)) = 1))

\* both outcomes have been delivered: one request answered with a success,
\* another with an error, after its request failed in the substrate
C1_Witness ==
    /\ \E i \in DOMAIN posted : posted[i].req > 0 /\ posted[i].msg.type \in SuccessTypes
    /\ \E i \in DOMAIN posted : posted[i].req > 0 /\ posted[i].msg.error = "ConstraintError"

(* -------------------------------- C2 ----------------------------------- *)
\* C2: a notification identifies the request that caused it: two
\* notifications that the receiver cannot tell apart (every field it sees is
\* equal) were caused by the same request, so each response can be matched
\* to its own request.
C2_ResponsesCorrelated ==
    \A i, j \in DOMAIN posted :
        posted[i].msg = posted[j].msg => posted[i].req = posted[j].req

(* -------------------------------- C3 ----------------------------------- *)
\* the open request has not succeeded yet when the message is handled
BeforeReady == {"Opening", "Migrating", "Upgraded"}

\* C3: a store or read request handled before the open request has
\* succeeded is answered with an error, no transaction is ever created for
\* it (neither at once nor later, when the handle is Ready), and the
\* persisted records stay as they were.
C3_NotReadyRejected ==
    \A r \in DOMAIN requests :
        (IsRequest(r) /\ requests[r].at \in BeforeReady)
            => /\ TxsOf(r) = {}
               /\ \A i \in Responses(r) : posted[i].msg.type \in ErrorTypes

(* -------------------------------- C4 ----------------------------------- *)
\* from the start of the upgrade handler until the open request succeeds
MigratingWindow == {"Migrating", "Upgraded"}

\* C4: no store or read request handled between the start of the upgrade
\* handler and the success of the open request is executed: none of them
\* gets a transaction on the store.
C4_NoOperationWhileMigrating ==
    \A r \in DOMAIN requests :
        (IsRequest(r) /\ requests[r].at \in MigratingWindow) => TxsOf(r) = {}

(* -------------------------------- C5 ----------------------------------- *)
\* the write of transaction i is in the store
Committed(i) == txs[i].mode = "readwrite" /\ txs[i].state = "committed"

SameBatch(i, j) ==
    /\ TheWrite(txs[i]).data = TheWrite(txs[j]).data
    /\ TheWrite(txs[i]).filename = TheWrite(txs[j]).filename

\* C5: the same batch (same data, same filename) submitted twice leaves the
\* store as one submission does: when both submissions have committed, the
\* second has added no record to what the first left.
C5_IdempotentReingest ==
    \A i, j \in DOMAIN txs :
        (i < j /\ Committed(i) /\ Committed(j) /\ SameBatch(i, j))
            => TheWrite(txs[j]) = TheWrite(txs[i])

Collided(i) == txs[i].mode = "readwrite" /\ txs[i].prior # {}

Emitted(t) == \E n \in DOMAIN posted : posted[n].msg.type = t

\* the steps of the handle's lifecycle
LifecycleSteps ==
    { <<"Opening", "Migrating">>, <<"Migrating", "Upgraded">>,
      <<"Migrating", "UpgradeAborted">>, <<"Upgraded", "Ready">>,
      <<"Opening", "Ready">>, <<"Opening", "Failed">>,
      <<"UpgradeAborted", "Failed">> }

\* C10: the handle goes from Opening to Ready; Migrating is entered only
\* from Opening and only when the requested version exceeds the persisted
\* one; DB_READY is emitted only once the open has succeeded, after any
\* migration has finished; DB_READY and DB_ERROR are never both emitted.
C10_Lifecycle ==
    /\ [](Emitted("DB_READY") => openState = "Ready")
    /\ [](Emitted("DB_ERROR") => openState = "Failed")
    /\ [](~(Emitted("DB_READY") /\ Emitted("DB_ERROR")))
    /\ [][openState' # openState => <<openState, openState'>> \in LifecycleSteps]_vars
    /\ [][(openState' = "Migrating" /\ openState # "Migrating")
            => (openState = "Opening" /\ dbVersion < RequestedVersion)]_vars
    /\ [][(openState' = "Ready" /\ openState = "Opening")
            => dbVersion = RequestedVersion]_vars

\* DB_READY has been emitted after a migration
C10_Witness ==
    Emitted("DB_READY") /\ snapshot.version < dbVersion

(* -------------------------------- C11 ---------------------------------- *)
\* C11: a store or read request handled after the open has failed (DB_ERROR
\* emitted) is answered at once with one error notification and gets no
\* transaction, so it neither reads nor modifies the persisted records;
\* also when the upgrade handler had assigned the global handle before the
\* failure.
C11_FailedHandleUnusable ==
    \A r \in DOMAIN requests :
        (IsRequest(r) /\ requests[r].at = "Failed")
            => /\ Emitted("DB_ERROR")
               /\ TxsOf(r) = {}
               /\ Cardinality(Responses(r)) = 1
               /\ \A n \in Responses(r) : posted[n].msg.type \in ErrorTypes

\* a request was handled after a failure that left the global handle
\* assigned: the check of `!db` passed and db.transaction threw
C11_Witness ==
    \E r \in DOMAIN requests :
        /\ IsRequest(r) /\ requests[r].at = "Failed"
        /\ db = "connection"
        /\ \E n \in Responses(r) : posted[n].msg.error = "InvalidStateError"

(* -------------------------------- C13 ---------------------------------- *)
\* the records of the store when the page was loaded
InitialRecords == snapshot.records

\* the records written by the write transactions created before
\* transaction i that have committed
CommittedBefore(i) ==
    UNION {txs[j].writes : j \in {k \in 1..(i - 1) : Committed(k)}}

\* C13: a write transaction has acted only when every transaction created
\* before it has finished, so no two writes interleave; and the result of a
\* read is the store as it was at one point: the records present at load
\* plus the writes of exactly the transactions created before the read that
\* committed, with nothing of an aborted or unfinished write.
C13_SerializedWritesCommittedReads ==
    /\ \A i, j \in DOMAIN txs :
          (i < j /\ txs[j].mode = "readwrite" /\ txs[j].state # "pending")
              => Finished(txs[i])
    /\ \A n \in DOMAIN posted :
          posted[n].msg.type = "ALL_DATA"
              => \A i \in TxsOf(posted[n].req) :
                    posted[n].msg.data = InitialRecords \cup CommittedBefore(i)

\* a read created after a write has returned the record that write committed
C13_Witness ==
    \E n \in DOMAIN posted :
        /\ posted[n].msg.type = "ALL_DATA"
        /\ \E j \in DOMAIN txs :
              Committed(j) /\ txs[j].writes \subseteq posted[n].msg.data

(* -------------------------------- C14 ---------------------------------- *)
\* a step of a read request: the handler takes a GET_ALL_DATA message, or
\* the request of a read-only transaction completes
ReadStep ==
    \/ /\ Len(requests') = Len(requests) + 1
       /\ requests'[Len(requests')].msg.type = "GET_ALL_DATA"
    \/ \E i \in DOMAIN txs : txs[i].mode = "readonly" /\ txs'[i] # txs[i]

\* C14: no step of a read request, answered with ALL_DATA or with
\* DATA_ERROR, changes the persisted version, stores or records; and two
\* reads with no committed write created between them return the same
\* records.
C14_ReadDoesNotMutate ==
    /\ [][ReadStep => persisted' = persisted]_vars
    /\ [](\A n1, n2 \in DOMAIN posted :
            (posted[n1].msg.type = "ALL_DATA" /\ posted[n2].msg.type = "ALL_DATA")
                => \A i \in TxsOf(posted[n1].req), k \in TxsOf(posted[n2].req) :
                      (i < k /\ ~\E j \in (i + 1)..(k - 1) : Committed(j))
                          => posted[n1].msg.data = posted[n2].msg.data)

\* two reads have returned the same record of the store
C14_Witness ==
    \E n1, n2 \in DOMAIN posted :
        /\ n1 < n2
        /\ posted[n1].msg.type = "ALL_DATA" /\ posted[n2].msg.type = "ALL_DATA"
        /\ posted[n1].msg.data = posted[n2].msg.data
        /\ posted[n1].msg.data # {}

ErrorStep(r) ==
    /\ Len(posted') = Len(posted) + 1
    /\ posted'[Len(posted')].msg.type \in ErrorTypes
    /\ posted'[Len(posted')].req = r

AllAnswered ==
    \A r \in DOMAIN requests : IsRequest(r) => Cardinality(Responses(r)) = 1

Acked(i) ==
    /\ txs[i].mode = "readwrite"
    /\ \E n \in Responses(txs[i].req) : posted[n].msg.type = "STORAGE_SUCCESS"

\* C17: whenever STORAGE_SUCCESS has been emitted for a write, the
\* transaction of that write has committed and the record, with the id and
\* filename of the notification, is in the store.
C17_AckImpliesPersisted ==
    \A i \in DOMAIN txs :
        Acked(i)
            => /\ txs[i].state = "committed"
               /\ txs[i].writes \subseteq records
               /\ \A n \in Responses(txs[i].req) :
                     /\ posted[n].msg.id = TheWrite(txs[i]).id
                     /\ posted[n].msg.filename = TheWrite(txs[i]).filename

(* -------------------------------- C18 ---------------------------------- *)
\* C18: no step removes or changes a persisted record, and every STORE_CSV
\* answered with STORAGE_SUCCESS has, once its transaction has finished,
\* added its one record to the store.
C18_GrowOnly ==
    /\ [][records \subseteq records']_vars
    /\ [](\A i \in DOMAIN txs :
            (Acked(i) /\ Finished(txs[i])) => txs[i].writes \subseteq records)

(* -------------------------------- C12 ---------------------------------- *)
\* C12: every request a snippet of main() posts goes to the window the
\* storage script listens on, and every notification the storage script
\* posts goes to the window message_handler_js listens on.
C12_BridgeDelivers ==
    /\ \A m \in hostPosted : m.window = EngineFrame
    /\ \A n \in DOMAIN posted : posted[n].window = ListenerFrame

(* -------------------------------- C19 ---------------------------------- *)
GithubStores(posts) == {m \in posts : m.path = "github"}

\* C19: every STORE_CSV posted by the GitHub section comes from a run in
\* which the download and the CSV parse both succeeded; a run whose
\* download failed posts no STORE_CSV for the GitHub path and leaves the
\* persisted records as they were.
C19_NoStoreAfterFailedDownload ==
    /\ [](\A m \in GithubStores(hostPosted) :
            m.msg.type = "STORE_CSV" /\ m.download = "ok" /\ m.parsed = "ok")
    /\ [][(lastRun' # lastRun /\ lastRun'.clicked = "github"
                /\ lastRun'.download = "failed")
            => /\ GithubStores(hostPosted') = GithubStores(hostPosted)
               /\ persisted' = persisted]_vars

\* the latest run clicked "Load from GitHub", its download failed, and no
\* STORE_CSV of the GitHub path exists
C19_Witness ==
    /\ lastRun.clicked = "github" /\ lastRun.download = "failed"
    /\ GithubStores(hostPosted) = {}

====
